---- MODULE Spec2Model ----
(***************************************************************************)
(* Barbearia API: the store (db.js), the auth module (auth.js) and the     *)
(* HTTP routes (server.js) as one state machine.                           *)
(*                                                                         *)
(* The process is single threaded and every handler is synchronous         *)
(* (better-sqlite3), so a middleware or a route handler is one atomic      *)
(* step.  A request under /admin walks the chain mounted by                *)
(* app.use("/admin", authMiddleware, ensureAdmin) and then its route.      *)
(*                                                                         *)
(* Modelling conventions                                                   *)
(*  - a JSON body is a record; an absent key is a key not in its DOMAIN;   *)
(*  - JS null and SQL NULL are the string Null (no sample text equals it); *)
(*  - a SQLite boolean column holds the integers 0 and 1;                  *)
(*  - time is counted in hours; every Date.now() call of an INSERT returns *)
(*    the clock and the clock then moves on;                               *)
(*  - JWT_SECRET is configured (README: copy .env.example to .env);        *)
(*  - the requests are those that the global middleware of server.js       *)
(*    lines 24-30 lets through: within the rate limit, with a JSON body.   *)
(***************************************************************************)
EXTENDS Integers, Sequences, FiniteSets, TLC

VARIABLES
    pc,      \* position of the process in server.js: start, migrated, seeded, up
    env,     \* process.env: ADMIN_EMAIL, ADMIN_PASSWORD
    schema,  \* TRUE once the tables exist in the database file
    db,      \* table name -> set of rows
    seq,     \* table name -> last id given by AUTOINCREMENT (sqlite_sequence)
    now,     \* the clock (hours)
    boots,   \* completed startup sequences on this database file
    writes,  \* statements of route handlers that changed a row, so far
    budget,  \* how many such statements the model lets a behaviour run
    rpc,     \* position of the request being served: idle, ensureAdmin, route, done
    req,     \* the request being served
    res      \* its response

vars == <<pc, env, schema, db, seq, now, boots, writes, budget, rpc, req, res>>

----------------------------------------------------------------------------
(* Bounds of the model *)

MaxWrites == 1
MaxBoots == 2
MaxListRows == 13
MaxOtherRows == 2
MaxInboxWrites == 3
MaxReplaceWrites == 2

(* Constants of the program *)

TokenTTL == 12
BcryptRounds == 10
MinPassword == 3
MinText == 2
MinPhone == 6
MinRating == 1
MaxRating == 5
TestimonialsLimit == 12
GalleryLimit == 24
PostsLimit == 20

Null == "NULL"
Secret == "JWT_SECRET"

Tables == {"users", "services", "team", "testimonials", "gallery", "posts",
           "appointments", "contacts"}
ContentTables == {"services", "team", "testimonials", "gallery", "posts"}

----------------------------------------------------------------------------
(* JavaScript and zod helpers *)

Has(b, k) == k \in DOMAIN b

\* x || null on an optional (and, for appointments, nullable) string
OrNull(d, k) == IF Has(d, k) /\ d[k] # "" /\ d[k] # Null THEN d[k] ELSE Null

FlagAlwaysDefault(d, k, dflt) == IF dflt THEN 1 ELSE 0
\* (d.k ?? dflt) ? 1 : 0
Flag(d, k, dflt) == IF (IF Has(d, k) THEN d[k] ELSE dflt) THEN 1 ELSE 0

\* the strings of the samples that z.string().email() accepts
EmailFormat == {"admin@barbearia.com", "ana@x.com", "other@x.com"}
\* the strings of the samples that z.string().url() accepts
UrlFormat == {"https://img/x.png"}

\* zod strips the keys the schema does not declare
Strip(b, keys) == [k \in (DOMAIN b) \cap keys |-> b[k]]

MinLen(b, k, n) == Has(b, k) /\ b[k] # Null /\ Len(b[k]) >= n
OptText(b, k) == Has(b, k) => b[k] # Null
OptNullableText(b, k) == TRUE
OptUrl(b, k) == Has(b, k) => b[k] \in UrlFormat

----------------------------------------------------------------------------
(* SQLite helpers *)

\* a text parameter compared with an INTEGER PRIMARY KEY: numeric text is
\* converted by column affinity, any other text equals no id
Numerals == <<"1", "2", "3", "4", "5", "6", "7", "8", "9">>
RowId(p) == IF \E i \in 1..Len(Numerals) : Numerals[i] = p
            THEN CHOOSE i \in 1..Len(Numerals) : Numerals[i] = p
            ELSE 0

Ids(S) == {r.id : r \in S}
RowOf(S, i) == CHOOSE r \in S : r.id = i

MaxOf(I) == CHOOSE m \in I : \A j \in I : j <= m
MinOf(I) == CHOOSE m \in I : \A j \in I : m <= j

RECURSIVE OrderById(_)
\* ORDER BY id
OrderById(S) == IF S = {} THEN <<>>
                ELSE LET r == RowOf(S, MinOf(Ids(S)))
                     IN <<r>> \o OrderById(S \ {r})

RECURSIVE OrderByIdDesc(_)
\* ORDER BY id DESC
OrderByIdDesc(S) == IF S = {} THEN <<>>
                    ELSE LET r == RowOf(S, MaxOf(Ids(S)))
                         IN <<r>> \o OrderByIdDesc(S \ {r})

\* LIMIT n
Limit(s, n) == IF Len(s) <= n THEN s ELSE SubSeq(s, 1, n)

\* SELECT <cols>
Project(s, cols) == [i \in 1..Len(s) |-> [c \in cols |-> s[i][c]]]

\* INSERT INTO t: AUTOINCREMENT gives an id above every id ever given
InsertInto(d, t, row) == [d EXCEPT ![t] = @ \cup {row}]
NextIdOf(t) == seq[t] + 1

\* DELETE FROM t WHERE id = p
DeleteEveryRow(d, t, p) == [d EXCEPT ![t] = {}]
DeleteFrom(d, t, p) == [d EXCEPT ![t] = {r \in @ : r.id # RowId(p)}]
\* info.changes
Changes(t, p) == Cardinality({r \in db[t] : r.id = RowId(p)})

----------------------------------------------------------------------------
(* Requests and responses *)

NoReq == [route |-> "", header |-> <<>>, param |-> "", body |-> <<>>,
          user |-> <<>>, at |-> 0]
NoRes == [status |-> 0, json |-> <<>>]

Idle == pc = "up" /\ rpc = "idle"
Routed == pc = "up" /\ rpc = "route"

\* res.status(s).json(j) of a public route
Reply(route, param, body, s, j) ==
    /\ req' = [NoReq EXCEPT !.route = route, !.param = param, !.body = body,
                            !.at = now]
    /\ res' = [status |-> s, json |-> j]
    /\ rpc' = "done"

\* res.status(s).json(j) of a route under /admin
AdminReply(route, param, body, s, j) ==
    /\ req' = [req EXCEPT !.route = route, !.param = param, !.body = body]
    /\ res' = [status |-> s, json |-> j]
    /\ rpc' = "done"

\* parsed.error.flatten(): the fields that failed
Flatten(errs) == [error |-> [fieldErrors |-> errs]]
Bad(k, ok) == IF ok THEN {} ELSE {k}

\* the response is written and the server takes the next request
Finish ==
    /\ pc = "up" /\ rpc = "done"
    /\ rpc' = "idle" /\ req' = NoReq /\ res' = NoRes
    /\ UNCHANGED <<pc, env, schema, db, seq, now, boots, writes, budget>>

----------------------------------------------------------------------------
(* db.js *)

EmptyDb == [t \in Tables |-> {}]

Envs == {[ADMIN_EMAIL |-> "admin@barbearia.com", ADMIN_PASSWORD |-> "s3cret"],
         [ADMIN_EMAIL |-> "admin@barbearia.com", ADMIN_PASSWORD |-> ""],
         [ADMIN_EMAIL |-> "", ADMIN_PASSWORD |-> "s3cret"]}

\* a new database file, a process about to run server.js
InitWith(E, b) ==
    /\ pc = "start"
    /\ env \in E
    /\ schema = FALSE
    /\ db = EmptyDb
    /\ seq = [t \in Tables |-> 0]
    /\ now = 0
    /\ boots = 0
    /\ writes = 0
    /\ budget = b
    /\ rpc = "idle"
    /\ req = NoReq
    /\ res = NoRes

\* CREATE TABLE IF NOT EXISTS ...: existing tables and rows are kept
migrate ==
    /\ pc = "start"
    /\ schema' = TRUE
    /\ pc' = "migrated"
    /\ UNCHANGED <<env, db, seq, now, boots, writes, budget, rpc, req, res>>

SeedAlways(d) == TRUE
\* SELECT COUNT(*) AS c FROM services; count === 0
SeedNeeded(d) == Cardinality(d["services"]) = 0

SeedRow(id, title, description, price, at) ==
    [id |-> id, title |-> title, description |-> description,
     price_cents |-> price, active |-> 1, created_at |-> at]

\* the three INSERTs of seedIfEmpty (titles in ASCII)
SeedRows(last, at) ==
    { SeedRow(last + 1, "Corte Classico", "Tesoura e maquina, finalizacao.", 4000, at),
      SeedRow(last + 2, "Barba Modelada", "Desenho e hidratacao.", 3000, at),
      SeedRow(last + 3, "Corte + Barba", "Combo especial.", 7000, at) }

seedIfEmpty ==
    /\ pc = "migrated" /\ schema
    /\ pc' = "seeded"
    /\ IF SeedNeeded(db)
       THEN /\ db' = [db EXCEPT !["services"] = @ \cup SeedRows(seq["services"], now)]
            /\ seq' = [seq EXCEPT !["services"] = @ + 3]
            /\ now' = now + 1
       ELSE UNCHANGED <<db, seq, now>>
    /\ UNCHANGED <<env, schema, boots, writes, budget, rpc, req, res>>

----------------------------------------------------------------------------
(* auth.js *)

\* bcrypt.hashSync(pwd, 10)
HashSync(pwd) == [alg |-> "bcrypt", rounds |-> BcryptRounds, of |-> pwd]

VerifyAnyPassword(hash, plain) == TRUE
\* bcrypt.compareSync(plain, hash)
verifyPassword(hash, plain) == hash.alg = "bcrypt" /\ hash.of = plain

\* jwt.sign({sub, role, email}, JWT_SECRET, {expiresIn: '12h'})
signToken(user) ==
    [sig |-> Secret, sub |-> user.id, role |-> user.role, email |-> user.email,
     exp |-> now + TokenTTL]

\* jwt.verify(token, JWT_SECRET): the signature is ours and the token has not expired
JwtVerify(tok, t) == tok.sig = Secret /\ t < tok.exp

\* header.startsWith('Bearer ') ? header.slice(7) : null
BearerToken(header) == IF header.scheme = "Bearer" THEN header.token ELSE <<>>

\* the tokens a client may hold: signed by this server's secret or by another
\* key, for either role, expired or not
Tokens == [sig : {Secret, "other"}, sub : {1}, role : {"admin", "user"},
           email : {"admin@barbearia.com"}, exp : {now, now + TokenTTL}]

\* the Authorization headers of the samples: none, another scheme, "Bearer "
\* followed by nothing, "Bearer <token>"
Headers == {[scheme |-> "", token |-> <<>>], [scheme |-> "Basic", token |-> <<>>],
            [scheme |-> "Bearer", token |-> <<>>]}
           \cup {[scheme |-> "Bearer", token |-> t] : t \in Tokens}

authMiddleware ==
    /\ Idle
    /\ \E header \in Headers :
         LET token == BearerToken(header)
             r == [NoReq EXCEPT !.route = "/admin", !.header = header, !.at = now]
         IN IF token = <<>>
            THEN /\ req' = r
                 /\ res' = [status |-> 401, json |-> [error |-> "missing_token"]]
                 /\ rpc' = "done"
            ELSE IF JwtVerify(token, now)
            THEN /\ req' = [r EXCEPT !.user = token]
                 /\ res' = NoRes
                 /\ rpc' = "ensureAdmin"
            ELSE /\ req' = r
                 /\ res' = [status |-> 401, json |-> [error |-> "invalid_token"]]
                 /\ rpc' = "done"
    /\ UNCHANGED <<pc, env, schema, db, seq, now, boots, writes, budget>>

AnyRole(user) == TRUE
\* req.user?.role === 'admin'
IsAdmin(user) == user # <<>> /\ user.role = "admin"

ensureAdmin ==
    /\ pc = "up" /\ rpc = "ensureAdmin"
    /\ IF IsAdmin(req.user)
       THEN /\ rpc' = "route"
            /\ UNCHANGED <<req, res>>
       ELSE /\ res' = [status |-> 403, json |-> [error |-> "forbidden"]]
            /\ rpc' = "done"
            /\ UNCHANGED req
    /\ UNCHANGED <<pc, env, schema, db, seq, now, boots, writes, budget>>

AdminUserRowAsUser(id, email, pwd, at) ==
    [id |-> id, email |-> email, password_hash |-> HashSync(pwd),
     role |-> "user", created_at |-> at]
\* INSERT INTO users (email, password_hash, role, created_at) VALUES (?, ?, 'admin', ?)
AdminUserRow(id, email, pwd, at) ==
    [id |-> id, email |-> email, password_hash |-> HashSync(pwd),
     role |-> "admin", created_at |-> at]

ensureAdminUser ==
    /\ pc = "seeded"
    /\ pc' = "up"
    /\ boots' = boots + 1
    /\ LET email == env.ADMIN_EMAIL
           pwd == env.ADMIN_PASSWORD
       IN IF email = "" \/ pwd = ""
          THEN UNCHANGED <<db, seq, now>>
          ELSE IF \E u \in db["users"] : u.email = email
          THEN UNCHANGED <<db, seq, now>>
          ELSE /\ db' = InsertInto(db, "users",
                           AdminUserRow(NextIdOf("users"), email, pwd, now))
               /\ seq' = [seq EXCEPT !["users"] = @ + 1]
               /\ now' = now + 1
    /\ UNCHANGED <<env, schema, writes, budget, rpc, req, res>>

\* the process ends and server.js runs again on the same database file and
\* with the same environment
Restart ==
    /\ Idle
    /\ boots < MaxBoots
    /\ pc' = "start"
    /\ UNCHANGED <<env, schema, db, seq, now, boots, writes, budget, rpc, req, res>>

----------------------------------------------------------------------------
(* server.js: POST /auth/login *)

LoginBodies ==
    {[email |-> e, password |-> p] :
        e \in {"admin@barbearia.com", "other@x.com", "not-an-email"},
        p \in {"s3cret", "wrong", "ab"}}
    \cup {[email |-> "admin@barbearia.com"]}

LoginErrors(b) ==
    Bad("email", Has(b, "email") /\ b.email \in EmailFormat)
    \cup Bad("password", MinLen(b, "password", MinPassword))

PostAuthLogin ==
    /\ Idle
    /\ \E body \in LoginBodies :
         IF LoginErrors(body) # {}
         THEN Reply("POST /auth/login", "", body, 400, Flatten(LoginErrors(body)))
         ELSE LET found == {u \in db["users"] : u.email = body.email}
              IN IF found = {} \/ ~verifyPassword((CHOOSE u \in found : TRUE).password_hash,
                                                  body.password)
                 THEN Reply("POST /auth/login", "", body, 401,
                            [error |-> "invalid_credentials"])
                 ELSE Reply("POST /auth/login", "", body, 200,
                            [token |-> signToken(CHOOSE u \in found : TRUE)])
    /\ UNCHANGED <<pc, env, schema, db, seq, now, boots, writes, budget>>

----------------------------------------------------------------------------
(* server.js: the bodies of the samples *)

\* S, and every body of S with key k added, for each value of V
Opt(S, k, V) == S \cup {(k :> v) @@ b : b \in S, v \in V}
\* every body of S with key k added, for each value of V
With(S, k, V) == {(k :> v) @@ b : b \in S, v \in V}

ServiceBodies ==
    LET ok == {[title |-> "Degrade", price_cents |-> 4500]}
    IN Opt(ok, "description", {"", "Navalhado"})
       \cup With(ok, "active", {TRUE, FALSE})
       \cup {[title |-> "Degrade", price_cents |-> 0, description |-> "Cortesia",
              active |-> FALSE, id |-> 99],
             [title |-> "D", price_cents |-> 4500],
             [title |-> "D", price_cents |-> -1, active |-> TRUE],
             [title |-> "Degrade"]}

TeamBodies ==
    LET ok == {[name |-> "Joao"]}
    IN Opt(ok, "role", {"", "Barbeiro"})
       \cup With(ok, "photo_url", UrlFormat)
       \cup With(ok, "active", {TRUE, FALSE})
       \cup {[name |-> "Joao", role |-> "Barbeiro", photo_url |-> "https://img/x.png",
              active |-> FALSE],
             [name |-> "J"],
             [name |-> "Joao", photo_url |-> "x.png"]}

TestimonialBodies ==
    LET ok == {[author |-> "Ana", content |-> "Otimo", rating |-> r] : r \in {1, 5}}
    IN Opt(ok, "active", {TRUE, FALSE})
       \cup {[author |-> "Ana", content |-> "Otimo", rating |-> 0],
             [author |-> "Ana", content |-> "Otimo", rating |-> 6, active |-> FALSE],
             [author |-> "A", content |-> "", rating |-> 5],
             [author |-> "Ana", rating |-> 5]}

GalleryBodies ==
    LET ok == {[image_url |-> "https://img/x.png"]}
    IN Opt(ok, "caption", {"", "Vitrine"})
       \cup With(ok, "active", {TRUE, FALSE})
       \cup {[image_url |-> "https://img/x.png", caption |-> "Vitrine", active |-> FALSE],
             [image_url |-> "x.png"],
             [caption |-> "Vitrine"]}

PostBodies ==
    LET ok == {[title |-> "Novidades"]}
    IN Opt(ok, "excerpt", {"", "Resumo"})
       \cup With(ok, "content", {"", "Texto"})
       \cup With(ok, "cover_url", UrlFormat)
       \cup With(ok, "published", {TRUE, FALSE})
       \cup {[title |-> "Novidades", excerpt |-> "Resumo", content |-> "Texto",
              cover_url |-> "https://img/x.png", published |-> TRUE],
             [title |-> "N", published |-> TRUE],
             [title |-> "Novidades", cover_url |-> "x.png"]}

AppointmentBodies ==
    LET ok == {[name |-> "Ana Silva", phone |-> "11999999999", email |-> "ana@x.com"]}
    IN Opt(ok, "service", {Null, "", "Corte"})
       \cup With(ok, "datetime", {"2025-01-10T10:00"})
       \cup With(ok, "notes", {"", "Sem pressa"})
       \cup {[name |-> "Ana Silva", phone |-> "11999999999", email |-> "ana@x.com",
              service |-> "Corte", datetime |-> "2025-01-10T10:00",
              notes |-> "Sem pressa", status |-> "confirmed"],
             [name |-> "A", phone |-> "119", email |-> "ana@x.com"],
             [name |-> "Ana Silva", phone |-> "11999999999", email |-> "ana"],
             [name |-> "Ana Silva", email |-> "ana@x.com"]}

StatusBodies == {[status |-> s] : s \in {"pending", "confirmed", "canceled", "done"}}
                \cup {<<>>}

ContactBodies == {[name |-> "Ana Silva", email |-> "ana@x.com", message |-> "Ola"],
                  [name |-> "Ana Silva", email |-> "ana", message |-> "O"],
                  [name |-> "Ana Silva", email |-> "ana@x.com"]}

\* req.params.id of the samples: a first row, a first row after the three
\* seeded services, and text that is no number
IdParams == {"1", "4", "abc"}

----------------------------------------------------------------------------
(* server.js: the zod schemas, as the set of fields that fail *)

ServiceErrors(b) ==
    Bad("title", MinLen(b, "title", MinText))
    \cup Bad("description", OptText(b, "description"))
    \cup Bad("price_cents", Has(b, "price_cents") /\ b.price_cents >= 0)

TeamErrors(b) ==
    Bad("name", MinLen(b, "name", MinText))
    \cup Bad("role", OptText(b, "role"))
    \cup Bad("photo_url", OptUrl(b, "photo_url"))

TestimonialErrors(b) ==
    Bad("author", MinLen(b, "author", MinText))
    \cup Bad("content", MinLen(b, "content", MinText))
    \cup Bad("rating", Has(b, "rating") /\ b.rating >= MinRating /\ b.rating <= MaxRating)

GalleryErrors(b) ==
    Bad("image_url", Has(b, "image_url") /\ b.image_url \in UrlFormat)
    \cup Bad("caption", OptText(b, "caption"))

PostErrors(b) ==
    Bad("title", MinLen(b, "title", MinText))
    \cup Bad("excerpt", OptText(b, "excerpt"))
    \cup Bad("content", OptText(b, "content"))
    \cup Bad("cover_url", OptUrl(b, "cover_url"))

AppointmentErrors(b) ==
    Bad("name", MinLen(b, "name", MinText))
    \cup Bad("phone", MinLen(b, "phone", MinPhone))
    \cup Bad("email", Has(b, "email") /\ b.email \in EmailFormat)
    \cup Bad("service", OptNullableText(b, "service"))
    \cup Bad("datetime", OptNullableText(b, "datetime"))
    \cup Bad("notes", OptNullableText(b, "notes"))

StatusErrors(b) ==
    Bad("status", Has(b, "status") /\ b.status \in {"pending", "confirmed", "canceled"})

ContactErrors(b) ==
    Bad("name", MinLen(b, "name", MinText))
    \cup Bad("email", Has(b, "email") /\ b.email \in EmailFormat)
    \cup Bad("message", MinLen(b, "message", MinText))

----------------------------------------------------------------------------
(* server.js: the columns written by each INSERT and each UPDATE *)

ServiceKeys == {"title", "description", "price_cents", "active"}
TeamKeys == {"name", "role", "photo_url", "active"}
TestimonialKeys == {"author", "content", "rating", "active"}
GalleryKeys == {"image_url", "caption", "active"}
PostKeys == {"title", "excerpt", "content", "cover_url", "published"}
AppointmentKeys == {"name", "phone", "email", "service", "datetime", "notes"}
StatusKeys == {"status"}
ContactKeys == {"name", "email", "message"}

\* the keys a schema requires, its optional strings, its boolean and the
\* default that the handler gives it
RequiredKeys(t) ==
    CASE t = "services" -> {"title", "price_cents"}
      [] t = "team" -> {"name"}
      [] t = "testimonials" -> {"author", "content", "rating"}
      [] t = "gallery" -> {"image_url"}
      [] t = "posts" -> {"title"}
OptionalTextKeys(t) ==
    CASE t = "services" -> {"description"}
      [] t = "team" -> {"role", "photo_url"}
      [] t = "testimonials" -> {}
      [] t = "gallery" -> {"caption"}
      [] t = "posts" -> {"excerpt", "content", "cover_url"}
FlagKey(t) == IF t = "posts" THEN "published" ELSE "active"
FlagDefault(t) == t # "posts"

ServiceRow(d, id, at) ==
    [id |-> id, title |-> d.title, description |-> OrNull(d, "description"),
     price_cents |-> d.price_cents, active |-> Flag(d, "active", TRUE),
     created_at |-> at]
ServicePatch(r, d) ==
    [r EXCEPT !.title = d.title,
              !.description = IF Has(d, "description") THEN OrNull(d, "description") ELSE @,
              !.price_cents = d.price_cents,
              !.active = IF Has(d, "active") THEN Flag(d, "active", TRUE) ELSE @]
ServiceSet(r, d) ==
    [r EXCEPT !.title = d.title, !.description = OrNull(d, "description"),
              !.price_cents = d.price_cents, !.active = Flag(d, "active", TRUE)]

TeamRow(d, id, at) ==
    [id |-> id, name |-> d.name, role |-> OrNull(d, "role"),
     photo_url |-> OrNull(d, "photo_url"), active |-> Flag(d, "active", TRUE),
     created_at |-> at]
TeamSet(r, d) ==
    [r EXCEPT !.name = d.name, !.role = OrNull(d, "role"),
              !.photo_url = OrNull(d, "photo_url"), !.active = Flag(d, "active", TRUE)]

TestimonialRow(d, id, at) ==
    [id |-> id, author |-> d.author, content |-> d.content, rating |-> d.rating,
     active |-> Flag(d, "active", TRUE), created_at |-> at]
TestimonialSet(r, d) ==
    [r EXCEPT !.author = d.author, !.content = d.content, !.rating = d.rating,
              !.active = Flag(d, "active", TRUE)]

GalleryRow(d, id, at) ==
    [id |-> id, image_url |-> d.image_url, caption |-> OrNull(d, "caption"),
     active |-> Flag(d, "active", TRUE), created_at |-> at]
GallerySet(r, d) ==
    [r EXCEPT !.image_url = d.image_url, !.caption = OrNull(d, "caption"),
              !.active = Flag(d, "active", TRUE)]

PostRow(d, id, at) ==
    [id |-> id, title |-> d.title, excerpt |-> OrNull(d, "excerpt"),
     content |-> OrNull(d, "content"), cover_url |-> OrNull(d, "cover_url"),
     published |-> Flag(d, "published", FALSE), created_at |-> at]
PostSet(r, d) ==
    [r EXCEPT !.title = d.title, !.excerpt = OrNull(d, "excerpt"),
              !.content = OrNull(d, "content"), !.cover_url = OrNull(d, "cover_url"),
              !.published = Flag(d, "published", FALSE)]

AppointmentRow(d, id, at) ==
    [id |-> id, name |-> d.name, phone |-> d.phone, email |-> d.email,
     service |-> OrNull(d, "service"), datetime |-> OrNull(d, "datetime"),
     notes |-> OrNull(d, "notes"), status |-> "pending", created_at |-> at]
StatusSetClearsNotes(r, d) == [r EXCEPT !.status = d.status, !.notes = Null]
\* UPDATE appointments SET status=? WHERE id=?
StatusSet(r, d) == [r EXCEPT !.status = d.status]

ContactRow(d, id, at) ==
    [id |-> id, name |-> d.name, email |-> d.email, message |-> d.message,
     created_at |-> at]

----------------------------------------------------------------------------
(* server.js: the statements *)

\* INSERT: the row gets the next id and Date.now()
Inserted(t, row) ==
    /\ writes < budget
    /\ db' = InsertInto(db, t, row)
    /\ seq' = [seq EXCEPT ![t] = row.id]
    /\ now' = now + 1
    /\ writes' = writes + 1

\* the schema, the declared keys and the columns of POST /admin/<t>
CreateBodies(t) ==
    CASE t = "services" -> ServiceBodies
      [] t = "team" -> TeamBodies
      [] t = "testimonials" -> TestimonialBodies
      [] t = "gallery" -> GalleryBodies
      [] t = "posts" -> PostBodies
CreateErrors(t, b) ==
    CASE t = "services" -> ServiceErrors(b)
      [] t = "team" -> TeamErrors(b)
      [] t = "testimonials" -> TestimonialErrors(b)
      [] t = "gallery" -> GalleryErrors(b)
      [] t = "posts" -> PostErrors(b)
CreateKeys(t) ==
    CASE t = "services" -> ServiceKeys
      [] t = "team" -> TeamKeys
      [] t = "testimonials" -> TestimonialKeys
      [] t = "gallery" -> GalleryKeys
      [] t = "posts" -> PostKeys
NewRow(t, d, id, at) ==
    CASE t = "services" -> ServiceRow(d, id, at)
      [] t = "team" -> TeamRow(d, id, at)
      [] t = "testimonials" -> TestimonialRow(d, id, at)
      [] t = "gallery" -> GalleryRow(d, id, at)
      [] t = "posts" -> PostRow(d, id, at)

\* the schema, the declared keys and the SET list of PUT /admin/<t>/:id, and
\* of PUT /admin/appointments/:id/status
UpdateBodies(t) == IF t = "appointments" THEN StatusBodies ELSE CreateBodies(t)
UpdateErrors(t, b) == IF t = "appointments" THEN StatusErrors(b) ELSE CreateErrors(t, b)
UpdateKeys(t) == IF t = "appointments" THEN StatusKeys ELSE CreateKeys(t)
SetRow(t, r, d) ==
    CASE t = "services" -> ServiceSet(r, d)
      [] t = "team" -> TeamSet(r, d)
      [] t = "testimonials" -> TestimonialSet(r, d)
      [] t = "gallery" -> GallerySet(r, d)
      [] t = "posts" -> PostSet(r, d)
      [] t = "appointments" -> StatusSet(r, d)

\* UPDATE t SET ... WHERE id = p
UpdateWhereId(d, t, p, data) ==
    [d EXCEPT ![t] = {IF r.id = RowId(p) THEN SetRow(t, r, data) ELSE r : r \in @}]

\* the statement changed info.changes rows
Changed(n) ==
    /\ n > 0 => writes < budget
    /\ writes' = IF n > 0 THEN writes + 1 ELSE writes

\* WHERE active = 1, WHERE published = 1
VisibleOrNot(S, flag) == S
Visible(S, flag) == {r \in S : r[flag] = 1}

\* SELECT * FROM t ORDER BY id DESC
SelectAll(t) == OrderByIdDesc(db[t])

----------------------------------------------------------------------------
(* server.js: the public routes *)

ReadOnly == UNCHANGED <<pc, env, schema, db, seq, now, boots, writes, budget>>

ServicesList ==
    Project(OrderById(Visible(db["services"], "active")),
            {"id", "title", "description", "price_cents"})
TeamList ==
    Project(OrderById(Visible(db["team"], "active")),
            {"id", "name", "role", "photo_url"})
TestimonialsUnlimited ==
    Project(OrderByIdDesc(Visible(db["testimonials"], "active")),
            {"id", "author", "content", "rating"})
TestimonialsList ==
    Project(Limit(OrderByIdDesc(Visible(db["testimonials"], "active")), TestimonialsLimit),
            {"id", "author", "content", "rating"})
GalleryList ==
    Project(Limit(OrderByIdDesc(Visible(db["gallery"], "active")), GalleryLimit),
            {"id", "image_url", "caption"})
PostsList ==
    Project(Limit(OrderByIdDesc(Visible(db["posts"], "published")), PostsLimit),
            {"id", "title", "excerpt", "cover_url", "created_at"})
\* the answer of the public list of table t
PublicList(t) ==
    CASE t = "services" -> ServicesList
      [] t = "team" -> TeamList
      [] t = "testimonials" -> TestimonialsList
      [] t = "gallery" -> GalleryList
      [] t = "posts" -> PostsList
\* SELECT ... FROM posts WHERE id = ? AND published = 1
PostDetail(p) ==
    Project(OrderById({r \in Visible(db["posts"], "published") : r.id = RowId(p)}),
            {"id", "title", "excerpt", "content", "cover_url", "created_at"})

GetServices == Idle /\ Reply("GET /services", "", <<>>, 200, ServicesList) /\ ReadOnly
GetTeam == Idle /\ Reply("GET /team", "", <<>>, 200, TeamList) /\ ReadOnly
GetTestimonials ==
    Idle /\ Reply("GET /testimonials", "", <<>>, 200, TestimonialsList) /\ ReadOnly
GetGallery == Idle /\ Reply("GET /gallery", "", <<>>, 200, GalleryList) /\ ReadOnly
GetPosts == Idle /\ Reply("GET /posts", "", <<>>, 200, PostsList) /\ ReadOnly

GetPostById ==
    /\ Idle
    /\ \E p \in IdParams :
         IF PostDetail(p) = <<>>
         THEN Reply("GET /posts/:id", p, <<>>, 404, [error |-> "not_found"])
         ELSE Reply("GET /posts/:id", p, <<>>, 200, PostDetail(p)[1])
    /\ ReadOnly

GetHealth == Idle /\ Reply("GET /health", "", <<>>, 200, [ok |-> TRUE]) /\ ReadOnly

PostAppointments ==
    /\ Idle
    /\ \E body \in AppointmentBodies :
         IF AppointmentErrors(body) # {}
         THEN /\ Reply("POST /appointments", "", body, 400,
                       Flatten(AppointmentErrors(body)))
              /\ UNCHANGED <<db, seq, now, writes>>
         ELSE LET row == AppointmentRow(Strip(body, AppointmentKeys),
                                        NextIdOf("appointments"), now)
              IN /\ Inserted("appointments", row)
                 /\ Reply("POST /appointments", "", body, 201,
                          [id |-> row.id, status |-> "pending"])
    /\ UNCHANGED <<pc, env, schema, boots, budget>>

PostContactInsertFirst ==
    /\ Idle
    /\ \E body \in ContactBodies :
         LET row == ContactRow([k \in ContactKeys |-> IF Has(body, k) THEN body[k] ELSE Null],
                               NextIdOf("contacts"), now)
         IN /\ Inserted("contacts", row)
            /\ IF ContactErrors(body) # {}
               THEN Reply("POST /contact", "", body, 400, Flatten(ContactErrors(body)))
               ELSE Reply("POST /contact", "", body, 201, [id |-> row.id])
    /\ UNCHANGED <<pc, env, schema, boots, budget>>
PostContact ==
    /\ Idle
    /\ \E body \in ContactBodies :
         IF ContactErrors(body) # {}
         THEN /\ Reply("POST /contact", "", body, 400, Flatten(ContactErrors(body)))
              /\ UNCHANGED <<db, seq, now, writes>>
         ELSE LET row == ContactRow(Strip(body, ContactKeys), NextIdOf("contacts"), now)
              IN /\ Inserted("contacts", row)
                 /\ Reply("POST /contact", "", body, 201, [id |-> row.id])
    /\ UNCHANGED <<pc, env, schema, boots, budget>>

----------------------------------------------------------------------------
(* server.js: the routes under /admin, reached through the chain *)

AdminGet(route, t) ==
    /\ Routed
    /\ AdminReply(route, "", <<>>, 200, SelectAll(t))
    /\ ReadOnly

AdminPostFrom(route, t, B) ==
    /\ Routed
    /\ \E body \in B :
         IF CreateErrors(t, body) # {}
         THEN /\ AdminReply(route, "", body, 400, Flatten(CreateErrors(t, body)))
              /\ UNCHANGED <<db, seq, now, writes>>
         ELSE LET row == NewRow(t, Strip(body, CreateKeys(t)), NextIdOf(t), now)
              IN /\ Inserted(t, row)
                 /\ AdminReply(route, "", body, 201, [id |-> row.id])
    /\ UNCHANGED <<pc, env, schema, boots, budget>>

AdminPost(route, t) == AdminPostFrom(route, t, CreateBodies(t))

AdminPut(route, t) ==
    /\ Routed
    /\ \E body \in UpdateBodies(t), p \in IdParams :
         IF UpdateErrors(t, body) # {}
         THEN /\ AdminReply(route, p, body, 400, Flatten(UpdateErrors(t, body)))
              /\ UNCHANGED <<db, writes>>
         ELSE /\ Changed(Changes(t, p))
              /\ db' = UpdateWhereId(db, t, p, Strip(body, UpdateKeys(t)))
              /\ AdminReply(route, p, body, 200, [updated |-> Changes(t, p)])
    /\ UNCHANGED <<pc, env, schema, seq, now, boots, budget>>

AdminDelete(route, t) ==
    /\ Routed
    /\ \E p \in IdParams :
         /\ Changed(Changes(t, p))
         /\ db' = DeleteFrom(db, t, p)
         /\ AdminReply(route, p, <<>>, 200, [deleted |-> Changes(t, p)])
    /\ UNCHANGED <<pc, env, schema, seq, now, boots, budget>>

GetAdminServices == AdminGet("GET /admin/services", "services")
PostAdminServices == AdminPost("POST /admin/services", "services")
PutAdminServices == AdminPut("PUT /admin/services/:id", "services")
DeleteAdminServices == AdminDelete("DELETE /admin/services/:id", "services")

GetAdminTeam == AdminGet("GET /admin/team", "team")
PostAdminTeam == AdminPost("POST /admin/team", "team")
PutAdminTeam == AdminPut("PUT /admin/team/:id", "team")
DeleteAdminTeam == AdminDelete("DELETE /admin/team/:id", "team")

GetAdminTestimonials == AdminGet("GET /admin/testimonials", "testimonials")
PostAdminTestimonials == AdminPost("POST /admin/testimonials", "testimonials")
PutAdminTestimonials == AdminPut("PUT /admin/testimonials/:id", "testimonials")
DeleteAdminTestimonials == AdminDelete("DELETE /admin/testimonials/:id", "testimonials")

GetAdminGallery == AdminGet("GET /admin/gallery", "gallery")
PostAdminGallery == AdminPost("POST /admin/gallery", "gallery")
PutAdminGallery == AdminPut("PUT /admin/gallery/:id", "gallery")
DeleteAdminGallery == AdminDelete("DELETE /admin/gallery/:id", "gallery")

GetAdminPosts == AdminGet("GET /admin/posts", "posts")
PostAdminPosts == AdminPost("POST /admin/posts", "posts")
PutAdminPosts == AdminPut("PUT /admin/posts/:id", "posts")
DeleteAdminPosts == AdminDelete("DELETE /admin/posts/:id", "posts")

GetAdminAppointments == AdminGet("GET /admin/appointments", "appointments")
PutAdminAppointmentStatus == AdminPut("PUT /admin/appointments/:id/status", "appointments")
DeleteAdminAppointments == AdminDelete("DELETE /admin/appointments/:id", "appointments")

GetAdminContacts == AdminGet("GET /admin/contacts", "contacts")
DeleteAdminContacts == AdminDelete("DELETE /admin/contacts/:id", "contacts")

----------------------------------------------------------------------------
(* The whole program: startup, requests, and the process run again *)

Startup == migrate \/ seedIfEmpty \/ ensureAdminUser

PublicRoutes ==
    \/ PostAuthLogin
    \/ GetServices \/ GetTeam \/ GetTestimonials \/ GetGallery \/ GetPosts
    \/ GetPostById
    \/ PostAppointments
    \/ PostContact
    \/ GetHealth

AdminChain == authMiddleware \/ ensureAdmin

ContentRoutes ==
    \/ GetAdminServices \/ PostAdminServices \/ PutAdminServices \/ DeleteAdminServices
    \/ GetAdminTeam \/ PostAdminTeam \/ PutAdminTeam \/ DeleteAdminTeam
    \/ GetAdminTestimonials \/ PostAdminTestimonials \/ PutAdminTestimonials
    \/ DeleteAdminTestimonials
    \/ GetAdminGallery \/ PostAdminGallery \/ PutAdminGallery \/ DeleteAdminGallery
    \/ GetAdminPosts \/ PostAdminPosts \/ PutAdminPosts \/ DeleteAdminPosts

InboxRoutes ==
    \/ GetAdminAppointments \/ PutAdminAppointmentStatus \/ DeleteAdminAppointments
    \/ GetAdminContacts \/ DeleteAdminContacts

Init == InitWith(Envs, MaxWrites)

Next ==
    \/ Startup \/ Restart
    \/ PublicRoutes \/ AdminChain \/ ContentRoutes \/ InboxRoutes \/ Finish

Spec == Init /\ [][Next]_vars

(* The inbox: appointments and contacts, from the public form to the admin *)

InitInbox == InitWith(Envs, MaxInboxWrites)

NextInbox ==
    \/ Startup
    \/ PostAppointments \/ PostContact
    \/ AdminChain \/ InboxRoutes \/ Finish

SpecInbox == InitInbox /\ [][NextInbox]_vars

(* The lists: one collection is filled, with rows that differ in their     *)
(* flag only, testimonials beyond the LIMIT of their public list           *)

ListBodies(t) ==
    {b \in CreateBodies(t) :
        /\ CreateErrors(t, b) = {}
        /\ DOMAIN b = RequiredKeys(t) \cup {FlagKey(t)}
        /\ t = "testimonials" => b.rating = MaxRating}

ListRows(t) == IF t = "testimonials" THEN MaxListRows ELSE MaxOtherRows

Fill(route, t) ==
    /\ \A u \in ContentTables \ {t} : seq[u] = IF u = "services" THEN 3 ELSE 0
    /\ Cardinality(db[t]) < ListRows(t)
    /\ AdminPostFrom(route, t, ListBodies(t))

FillServices == Fill("POST /admin/services", "services")
FillTeam == Fill("POST /admin/team", "team")
FillTestimonials == Fill("POST /admin/testimonials", "testimonials")
FillGallery == Fill("POST /admin/gallery", "gallery")
FillPosts == Fill("POST /admin/posts", "posts")

InitLists == InitWith({e \in Envs : e.ADMIN_EMAIL # "" /\ e.ADMIN_PASSWORD # ""}, MaxListRows)

NextLists ==
    \/ Startup
    \/ GetServices \/ GetTeam \/ GetTestimonials \/ GetGallery \/ GetPosts
    \/ AdminChain
    \/ FillServices \/ FillTeam \/ FillTestimonials \/ FillGallery \/ FillPosts
    \/ GetAdminServices \/ GetAdminTeam \/ GetAdminTestimonials \/ GetAdminGallery
    \/ GetAdminPosts
    \/ Finish

SpecLists == InitLists /\ [][NextLists]_vars

(* The editor: an admin creates content rows and replaces them, and the    *)
(* seeded services, by PUT                                                 *)

InitReplace ==
    InitWith({e \in Envs : e.ADMIN_EMAIL # "" /\ e.ADMIN_PASSWORD # ""}, MaxReplaceWrites)

NextReplace ==
    \/ Startup
    \/ AdminChain
    \/ PostAdminServices \/ PostAdminTeam \/ PostAdminTestimonials \/ PostAdminGallery
    \/ PostAdminPosts
    \/ PutAdminServices \/ PutAdminTeam \/ PutAdminTestimonials \/ PutAdminGallery
    \/ PutAdminPosts
    \/ Finish

SpecReplace == InitReplace /\ [][NextReplace]_vars

----------------------------------------------------------------------------
(* Vocabulary of the properties *)

AdminRouteNames ==
    {"GET /admin/services", "POST /admin/services", "PUT /admin/services/:id",
     "DELETE /admin/services/:id",
     "GET /admin/team", "POST /admin/team", "PUT /admin/team/:id",
     "DELETE /admin/team/:id",
     "GET /admin/testimonials", "POST /admin/testimonials",
     "PUT /admin/testimonials/:id", "DELETE /admin/testimonials/:id",
     "GET /admin/gallery", "POST /admin/gallery", "PUT /admin/gallery/:id",
     "DELETE /admin/gallery/:id",
     "GET /admin/posts", "POST /admin/posts", "PUT /admin/posts/:id",
     "DELETE /admin/posts/:id",
     "GET /admin/appointments", "PUT /admin/appointments/:id/status",
     "DELETE /admin/appointments/:id",
     "GET /admin/contacts", "DELETE /admin/contacts/:id"}

PostRoute(t) ==
    CASE t = "services" -> "POST /admin/services"
      [] t = "team" -> "POST /admin/team"
      [] t = "testimonials" -> "POST /admin/testimonials"
      [] t = "gallery" -> "POST /admin/gallery"
      [] t = "posts" -> "POST /admin/posts"

PutRoute(t) ==
    CASE t = "services" -> "PUT /admin/services/:id"
      [] t = "team" -> "PUT /admin/team/:id"
      [] t = "testimonials" -> "PUT /admin/testimonials/:id"
      [] t = "gallery" -> "PUT /admin/gallery/:id"
      [] t = "posts" -> "PUT /admin/posts/:id"
      [] t = "appointments" -> "PUT /admin/appointments/:id/status"

DeleteRoute(t) ==
    CASE t = "services" -> "DELETE /admin/services/:id"
      [] t = "team" -> "DELETE /admin/team/:id"
      [] t = "testimonials" -> "DELETE /admin/testimonials/:id"
      [] t = "gallery" -> "DELETE /admin/gallery/:id"
      [] t = "posts" -> "DELETE /admin/posts/:id"
      [] t = "appointments" -> "DELETE /admin/appointments/:id"
      [] t = "contacts" -> "DELETE /admin/contacts/:id"

PutTables == ContentTables \cup {"appointments"}
DeleteTables == ContentTables \cup {"appointments", "contacts"}

Answered == pc = "up" /\ rpc = "done"
Answer(s, e) == [status |-> s, json |-> [error |-> e]]

\* the token of the Authorization header of the request, <<>> when it has none
PresentedToken ==
    IF req.header # <<>> /\ req.header.scheme = "Bearer" THEN req.header.token ELSE <<>>
\* signed with the server's secret and not expired when the request arrived
PresentedTokenValid ==
    /\ PresentedToken # <<>>
    /\ PresentedToken.sig = Secret
    /\ req.at < PresentedToken.exp

----------------------------------------------------------------------------
(* C1: under /admin, authentication runs before authorization and both     *)
(* before the route: no Bearer token is answered 401 missing_token, a      *)
(* token that fails verification 401 invalid_token, a valid token of       *)
(* another role 403 forbidden, and a route runs only for a valid token     *)
(* with role admin.                                                        *)
C1_AdminGate ==
    (pc = "up" /\ (req.route = "/admin" \/ req.route \in AdminRouteNames)) =>
        /\ PresentedToken = <<>> =>
              rpc = "done" /\ res = Answer(401, "missing_token")
        /\ (PresentedToken # <<>> /\ ~PresentedTokenValid) =>
              rpc = "done" /\ res = Answer(401, "invalid_token")
        /\ (PresentedTokenValid /\ PresentedToken.role # "admin") =>
              \/ rpc = "ensureAdmin" /\ res = NoRes
              \/ rpc = "done" /\ res = Answer(403, "forbidden")
        /\ (rpc = "route" \/ req.route \in AdminRouteNames) =>
              PresentedTokenValid /\ PresentedToken.role = "admin"

\* a route under /admin has run, and written, for an admin; the same client
\* could have been refused
C1_Witness ==
    /\ Answered /\ req.route = "POST /admin/services" /\ res.status = 201
    /\ PresentedToken.role = "admin"

(* C2: a request answered with a validation error (400) or an auth failure *)
(* (401 missing_token or invalid_token, 403 forbidden) leaves every table, *)
(* and every id counter, as it was.                                        *)
C2_Rejected(q, r) ==
    \/ r.status = 400
    \/ q.route = "/admin" /\ r.status \in {401, 403}

C2_RejectedLeavesStore ==
    [][(rpc' = "done" /\ rpc # "done" /\ C2_Rejected(req', res'))
          => (db' = db /\ seq' = seq)]_vars

C2_Witness ==
    /\ Answered /\ res.status = 400 /\ req.route = "POST /contact"
    /\ db["contacts"] = {} /\ db["services"] # {}

(* C7: a well-formed login is answered with a token exactly when a user    *)
(* row has the email and a hash of the password, and then the token        *)
(* carries the id, role and email of that row; otherwise the answer is     *)
(* 401 invalid_credentials and no token.                                   *)
C7_Login ==
    (Answered /\ req.route = "POST /auth/login"
        /\ Has(req.body, "email") /\ req.body.email \in EmailFormat
        /\ Has(req.body, "password") /\ Len(req.body.password) >= MinPassword) =>
        LET rows == {u \in db["users"] :
                        /\ u.email = req.body.email
                        /\ u.password_hash = HashSync(req.body.password)}
        IN IF rows = {}
           THEN res = Answer(401, "invalid_credentials")
           ELSE /\ res.status = 200
                /\ DOMAIN res.json = {"token"}
                /\ res.json.token.sig = Secret
                /\ \A u \in rows : /\ res.json.token.sub = u.id
                                   /\ res.json.token.role = u.role
                                   /\ res.json.token.email = u.email

C7_Witness ==
    /\ Answered /\ req.route = "POST /auth/login" /\ res.status = 200
    /\ res.json.token.sub \in Ids(db["users"])

(* C9: the users table changes only in ensureAdminUser, only when email    *)
(* and password are configured and no row has that email, and then by one  *)
(* row of that email with role admin; every token that login issues has    *)
(* role admin.                                                             *)
C9_UsersOnlyFromBootstrap ==
    [][/\ db'["users"] # db["users"] =>
            /\ pc = "seeded" /\ pc' = "up"
            /\ env.ADMIN_EMAIL # "" /\ env.ADMIN_PASSWORD # ""
            /\ ~\E u \in db["users"] : u.email = env.ADMIN_EMAIL
            /\ \E u \in db'["users"] \ db["users"] :
                  /\ db'["users"] = db["users"] \cup {u}
                  /\ u.email = env.ADMIN_EMAIL
                  /\ u.role = "admin"
       /\ (rpc' = "done" /\ req'.route = "POST /auth/login" /\ res'.status = 200) =>
            res'.json.token.role = "admin"]_vars

\* a token is issued after a second startup and a write by a route
C9_Witness ==
    /\ Answered /\ req.route = "POST /auth/login" /\ res.status = 200
    /\ boots = 2 /\ writes > 0

(* C5: while no route has written, every completed startup with admin      *)
(* email and password configured leaves the store of the first one: one    *)
(* user, the admin, and the three seeded services with their first ids     *)
(* and timestamps, and nothing else.                                       *)
C5_StartupIdempotent ==
    (boots >= 1 /\ writes = 0 /\ env.ADMIN_EMAIL # "" /\ env.ADMIN_PASSWORD # "") =>
        /\ \E u \in db["users"] :
              /\ db["users"] = {u}
              /\ u.id = 1 /\ u.role = "admin" /\ u.email = env.ADMIN_EMAIL
              /\ u.password_hash = HashSync(env.ADMIN_PASSWORD)
              /\ u.created_at = 1
        /\ Cardinality(db["services"]) = 3
        /\ {<<r.id, r.title, r.price_cents>> : r \in db["services"]} =
              {<<1, "Corte Classico", 4000>>, <<2, "Barba Modelada", 3000>>,
               <<3, "Corte + Barba", 7000>>}
        /\ \A r \in db["services"] : r.active = 1 /\ r.created_at = 0
        /\ \A t \in Tables \ {"users", "services"} : db[t] = {}
        /\ seq = [t \in Tables |-> IF t = "users" THEN 1 ELSE IF t = "services" THEN 3 ELSE 0]

\* the second startup has completed
C5_Witness ==
    /\ pc = "up" /\ boots = 2 /\ writes = 0
    /\ env.ADMIN_EMAIL # "" /\ env.ADMIN_PASSWORD # ""

(* C3: no public read returns a hidden row: every row of GET /services,   *)
(* /team, /testimonials and /gallery is a stored row with active = 1,      *)
(* every row of GET /posts a stored row with published = 1, and            *)
(* GET /posts/:id answers 404 not_found exactly when the post is missing   *)
(* or has published = 0.                                                   *)
C3_ListShows(route, t, flag) ==
    (Answered /\ req.route = route) =>
        /\ res.status = 200
        /\ \A i \in 1..Len(res.json) :
              \E r \in db[t] : r.id = res.json[i].id /\ r[flag] = 1

C3_PublicHidesHidden ==
    /\ C3_ListShows("GET /services", "services", "active")
    /\ C3_ListShows("GET /team", "team", "active")
    /\ C3_ListShows("GET /testimonials", "testimonials", "active")
    /\ C3_ListShows("GET /gallery", "gallery", "active")
    /\ C3_ListShows("GET /posts", "posts", "published")
    /\ (Answered /\ req.route = "GET /posts/:id") =>
          IF \E r \in db["posts"] : r.id = RowId(req.param) /\ r.published = 1
          THEN res.status = 200 /\ res.json.id = RowId(req.param)
          ELSE res = Answer(404, "not_found")

\* an unpublished post is asked for by its id
C3_Witness ==
    /\ Answered /\ req.route = "GET /posts/:id" /\ res.status = 404
    /\ \E r \in db["posts"] : r.id = RowId(req.param) /\ r.published = 0

(* C4: an admin PUT with a valid body, or DELETE, is answered 200 with the *)
(* count of rows of that id: 0 and no table changes when no row has the    *)
(* id, 1 and only that row changes (PUT) or goes (DELETE) when one has.    *)
C4_Step(t, put) ==
    (rpc = "route" /\ rpc' = "done"
        /\ req'.route = (IF put THEN PutRoute(t) ELSE DeleteRoute(t))
        /\ (put => UpdateErrors(t, req'.body) = {})) =>
        LET id == RowId(req'.param)
            count == IF put THEN res'.json.updated ELSE res'.json.deleted
        IN /\ res'.status = 200
           /\ IF id \in Ids(db[t])
              THEN /\ count = 1
                   /\ \A u \in Tables \ {t} : db'[u] = db[u]
                   /\ {r \in db'[t] : r.id # id} = {r \in db[t] : r.id # id}
                   /\ (id \in Ids(db'[t])) = put
              ELSE /\ count = 0
                   /\ db' = db

C4_PutDeleteCounts ==
    [][/\ \A t \in PutTables : C4_Step(t, TRUE)
       /\ \A t \in DeleteTables : C4_Step(t, FALSE)]_vars

\* a PUT to an id that no service has
C4_Witness ==
    /\ Answered /\ req.route = "PUT /admin/services/:id"
    /\ res = [status |-> 200, json |-> [updated |-> 0]]
    /\ RowId(req.param) \notin Ids(db["services"])

(* C6 as the specification states it: the row that the admin list shows    *)
(* under the id of the POST has, for every declared key of the payload,    *)
(* the value of the payload (a flag being 1 for true and 0 for false).     *)
\* the rows that GET /admin/<t> returns now under the id of the response
C6_Listed(t) ==
    {SelectAll(t)[i] : i \in {j \in 1..Len(SelectAll(t)) : SelectAll(t)[j].id = res.json.id}}

C6_Created(t) == Answered /\ req.route = PostRoute(t) /\ res.status = 201

C6_RowIsPayload ==
    \A t \in ContentTables :
        C6_Created(t) =>
            \E r \in C6_Listed(t) :
                /\ r.id > 0 /\ r.created_at <= now
                /\ \A k \in (RequiredKeys(t) \cup OptionalTextKeys(t)) \cap DOMAIN req.body :
                      r[k] = req.body[k]
                /\ Has(req.body, FlagKey(t)) =>
                      (r[FlagKey(t)] = 1) = req.body[FlagKey(t)]

(* C6, amended: the row has the required fields of the payload; an         *)
(* optional text field holds the payload's text, and NULL when the payload *)
(* omits it or gives the empty string; the flag column holds 1 or 0 for    *)
(* the payload's true or false, and its default (active 1, published 0)    *)
(* when the payload omits it; the id is positive and created_at is not     *)
(* later than the clock.                                                   *)
C6_RowIsNormalisedPayload ==
    \A t \in ContentTables :
        C6_Created(t) =>
            /\ Cardinality(C6_Listed(t)) = 1
            /\ \A r \in C6_Listed(t) :
                /\ r.id > 0 /\ r.created_at <= now
                /\ DOMAIN r = RequiredKeys(t) \cup OptionalTextKeys(t)
                                \cup {FlagKey(t), "id", "created_at"}
                /\ \A k \in RequiredKeys(t) : r[k] = req.body[k]
                /\ \A k \in OptionalTextKeys(t) :
                      r[k] = IF Has(req.body, k) /\ req.body[k] # ""
                             THEN req.body[k] ELSE Null
                /\ r[FlagKey(t)] =
                      IF Has(req.body, FlagKey(t))
                      THEN (IF req.body[FlagKey(t)] THEN 1 ELSE 0)
                      ELSE (IF FlagDefault(t) THEN 1 ELSE 0)

\* a post is created from a payload with an empty excerpt and no flag
C6_Witness ==
    /\ C6_Created("posts")
    /\ Has(req.body, "excerpt") /\ req.body.excerpt = ""
    /\ ~Has(req.body, "published")

(* C8: an appointment enters the store only by POST /appointments, with   *)
(* status pending, answered 201 with its id; it leaves only by             *)
(* DELETE /admin/appointments/:id of its id, and until then                *)
(* GET /admin/appointments lists it; its status is always pending,         *)
(* confirmed or canceled; no step changes another field of it, and         *)
(* PUT /admin/appointments/:id/status changes no other row of any table.   *)
C8_Frozen == {"id", "name", "phone", "email", "service", "datetime", "notes",
              "created_at"}

C8_AppointmentLife ==
    [][/\ \A r \in db'["appointments"] :
             /\ r.status \in {"pending", "confirmed", "canceled"}
             /\ r.id \notin Ids(db["appointments"]) =>
                   /\ rpc = "idle" /\ req'.route = "POST /appointments"
                   /\ r.status = "pending"
                   /\ res' = [status |-> 201, json |-> [id |-> r.id, status |-> "pending"]]
                   /\ db'["appointments"] = db["appointments"] \cup {r}
       /\ \A r \in db["appointments"] :
             IF r.id \in Ids(db'["appointments"])
             THEN \A q \in db'["appointments"] :
                     q.id = r.id => \A k \in C8_Frozen : q[k] = r[k]
             ELSE /\ rpc = "route" /\ req'.route = "DELETE /admin/appointments/:id"
                  /\ RowId(req'.param) = r.id
       /\ (rpc' = "done" /\ req'.route = "GET /admin/appointments") =>
             /\ res'.status = 200
             /\ {res'.json[i] : i \in 1..Len(res'.json)} = db'["appointments"]
       /\ (rpc' = "done" /\ rpc = "route"
              /\ req'.route = "PUT /admin/appointments/:id/status") =>
             /\ \A t \in Tables \ {"appointments"} : db'[t] = db[t]
             /\ \A r \in db["appointments"] :
                   r.id # RowId(req'.param) => r \in db'["appointments"]]_vars

\* the status of one of two appointments has been changed
C8_Witness ==
    /\ Answered /\ req.route = "PUT /admin/appointments/:id/status"
    /\ res = [status |-> 200, json |-> [updated |-> 1]]
    /\ Cardinality(db["appointments"]) = 2
    /\ \E r \in db["appointments"] :
          r.id = RowId(req.param) /\ r.status = "canceled" /\ r.notes # Null

(* C10 as the specification states it: every public list is the rows of    *)
(* its table whose flag is 1, all of them whatever their number, in id     *)
(* order (ascending or descending), and every admin list all the rows of   *)
(* its table in descending id order.                                       *)
C10_Ascending(s) == \A i, j \in 1..Len(s) : i < j => s[i].id < s[j].id
C10_Descending(s) == \A i, j \in 1..Len(s) : i < j => s[i].id > s[j].id
C10_IdsOf(s) == {s[i].id : i \in 1..Len(s)}
C10_Shown(t) == {r.id : r \in {x \in db[t] : x[FlagKey(t)] = 1}}
\* the n largest ids of I
C10_Newest(I, n) == {i \in I : Cardinality({j \in I : j > i}) < n}
\* every row of the answer has the columns of the stored row of its id
C10_Columns(t) ==
    \A i \in 1..Len(res.json) :
        \E r \in db[t] : \A k \in DOMAIN res.json[i] : res.json[i][k] = r[k]

C10_PublicRoute(t) ==
    CASE t = "services" -> "GET /services"
      [] t = "team" -> "GET /team"
      [] t = "testimonials" -> "GET /testimonials"
      [] t = "gallery" -> "GET /gallery"
      [] t = "posts" -> "GET /posts"
C10_AdminRoute(t) ==
    CASE t = "services" -> "GET /admin/services"
      [] t = "team" -> "GET /admin/team"
      [] t = "testimonials" -> "GET /admin/testimonials"
      [] t = "gallery" -> "GET /admin/gallery"
      [] t = "posts" -> "GET /admin/posts"

C10_AdminLists ==
    \A t \in ContentTables :
        (Answered /\ req.route = C10_AdminRoute(t)) =>
            /\ C10_Descending(res.json)
            /\ {res.json[i] : i \in 1..Len(res.json)} = db[t]

C10_PublicLimit(t) ==
    CASE t = "testimonials" -> TestimonialsLimit
      [] t = "gallery" -> GalleryLimit
      [] t = "posts" -> PostsLimit

C11_Put(t) ==
    /\ rpc = "route" /\ rpc' = "done"
    /\ req'.route = PutRoute(t)
    /\ UpdateErrors(t, req'.body) = {}
    /\ RowId(req'.param) \in Ids(db[t])

\* id, created_at and every other row are as they were
C11_Frame(t) ==
    LET id == RowId(req'.param)
    IN /\ res' = [status |-> 200, json |-> [updated |-> 1]]
       /\ \A u \in Tables \ {t} : db'[u] = db[u]
       /\ {r \in db'[t] : r.id # id} = {r \in db[t] : r.id # id}
       /\ Cardinality({r \in db'[t] : r.id = id}) = 1
       /\ \A r \in db'[t] : r.id = id => r.created_at = RowOf(db[t], id).created_at

\* the required columns, the flag, and the columns that the payload omits
C11_Reset(t, r) ==
    /\ \A k \in RequiredKeys(t) : r[k] = req'.body[k]
    /\ \A k \in OptionalTextKeys(t) \ DOMAIN req'.body : r[k] = Null
    /\ r[FlagKey(t)] =
          IF Has(req'.body, FlagKey(t))
          THEN (IF req'.body[FlagKey(t)] THEN 1 ELSE 0)
          ELSE (IF FlagDefault(t) THEN 1 ELSE 0)
    /\ (~Has(req'.body, FlagKey(t)) /\ FlagDefault(t)
          /\ Len(PublicList(t)') = Cardinality(Visible(db'[t], FlagKey(t)))) =>
          \E i \in 1..Len(PublicList(t)') : PublicList(t)'[i].id = r.id

====
